---- MODULE Spec2Model ----
(***************************************************************************)
(* A model of the two HyperLogLog estimators of bustub's primer:           *)
(*   HyperLogLog        (src/primer/hyperloglog.cpp)        "dense"        *)
(*   HyperLogLogPresto  (src/primer/hyperloglog_presto.cpp) "compact"      *)
(*                                                                         *)
(* A 64-bit hash_t is a tuple of four 16-bit words, most significant word  *)
(* first (TLC's integers are 32 bits wide).  A std::bitset<64> is a         *)
(* function from bit position 0..63 (0 = least significant) to {0, 1}.     *)
(* A double is a record [hi, lo, e] that stands for                        *)
(* (hi * 2^28 + lo) * 2^e, the mantissa being 0 or in [2^52, 2^53), as in  *)
(* IEEE 754 binary64 with round-to-nearest-even (no value of the program   *)
(* is subnormal, infinite or negative).  The size_t cardinality is a tuple *)
(* of three 28-bit limbs, most significant first.                          *)
(***************************************************************************)
EXTENDS Integers, Sequences, FiniteSets, TLC

\* ------------------------------------------------------------------ bounds

\* Largest precision (n_bits) an estimator of Spec is constructed with.
MaxBits == 1

\* Largest precision the bit utilities are applied with in SpecBits.
MaxPrecision == 3

\* ------------------------------------------------------- program constants

\* Width of the hash and of its bit view.
BITSET_CAPACITY == 64

\* Width of the dense field of a compact register.
DENSE_BUCKET_SIZE == 4

\* Width of an overflow entry of a compact register.
OVERFLOW_BUCKET_SIZE == 3

\* ------------------------------------------------------------ hash values

\* Bit i (0 = least significant) of the hash <<w3, w2, w1, w0>>.
HashBit(hash, i) == (hash[4 - (i \div 16)] \div (2 ^ (i % 16))) % 2

\* std::bitset<64>(hash)
ComputeBinary(hash) == [i \in 0 .. (BITSET_CAPACITY - 1) |-> HashBit(hash, i)]

\* ---------------------------------------------------------- bit utilities

\* The loop of HyperLogLog::PositionOfLeftmostOne, from i on.
RECURSIVE LeftmostOneFrom(_, _, _)
LeftmostOneFrom(bset, n_bits, i) ==
    IF i >= BITSET_CAPACITY THEN 0
    ELSE LET index == BITSET_CAPACITY - 1 - i
         IN  IF bset[index] = 1 THEN i - n_bits + 1
             ELSE LeftmostOneFrom(bset, n_bits, i + 1)

\* A scan that starts at bit 63, among the index bits.
PositionOfLeftmostOneFromTop(bset, n_bits) == LeftmostOneFrom(bset, n_bits, 0)

PositionOfLeftmostOne(bset, n_bits) == LeftmostOneFrom(bset, n_bits, n_bits)

\* The loop of HyperLogLog::ComputeBucket and of
\* HyperLogLogPresto::ComputeBucketIndex, from i on: bit 63 - i weighs 1 << i.
RECURSIVE BucketFrom(_, _, _)
BucketFrom(bset, n_bits, i) ==
    IF i >= n_bits THEN 0
    ELSE bset[BITSET_CAPACITY - 1 - i] * (2 ^ i) + BucketFrom(bset, n_bits, i + 1)

\* A loop that runs one bit too far: i <= n_bits.
ComputeBucketOneMore(bset, n_bits) == BucketFrom(bset, n_bits + 1, 0)

ComputeBucket(bset, n_bits) == BucketFrom(bset, n_bits, 0)

ComputeBucketIndex(bset, n_leading_bits) == BucketFrom(bset, n_leading_bits, 0)

\* The loop of HyperLogLogPresto::PositionOfRightMostOne, from i on.
RECURSIVE RightMostOneFrom(_, _, _)
RightMostOneFrom(bset, n_leading_bits, i) ==
    IF i >= BITSET_CAPACITY - n_leading_bits THEN BITSET_CAPACITY - n_leading_bits
    ELSE IF bset[i] = 1 THEN i
         ELSE RightMostOneFrom(bset, n_leading_bits, i + 1)

\* A scan that returns the position counted from 1.
PositionOfRightMostOneFromOne(bset, n_leading_bits) ==
    RightMostOneFrom(bset, n_leading_bits, 0) + 1

\* A scan that runs through the index bits too.
PositionOfRightMostOneOfAll(bset, n_leading_bits) ==
    LET r == RightMostOneFrom(bset, 0, 0)
    IN  IF r = BITSET_CAPACITY THEN BITSET_CAPACITY - n_leading_bits ELSE r

PositionOfRightMostOne(bset, n_leading_bits) == RightMostOneFrom(bset, n_leading_bits, 0)

\* ------------------------------------------------- 56-bit integers <<hi, lo>>

Limb == 2 ^ 28

U56Geq(a, b) == a[1] > b[1] \/ (a[1] = b[1] /\ a[2] >= b[2])

U56Add(a, b) == LET l == a[2] + b[2] IN <<a[1] + b[1] + (l \div Limb), l % Limb>>

U56Sub(a, b) ==
    IF a[2] >= b[2] THEN <<a[1] - b[1], a[2] - b[2]>>
    ELSE <<a[1] - b[1] - 1, a[2] + Limb - b[2]>>

U56Double(a) == U56Add(a, a)

\* a shifted right by d >= 0 bits, and whether a 1 bit was shifted out.
U56Shr(a, d) ==
    IF d >= 56 THEN [v |-> <<0, 0>>, lost |-> a # <<0, 0>>]
    ELSE IF d >= 28
         THEN [v |-> <<0, a[1] \div (2 ^ (d - 28))>>,
               lost |-> (a[1] % (2 ^ (d - 28)) # 0) \/ a[2] # 0]
         ELSE [v |-> <<a[1] \div (2 ^ d),
                       (a[1] % (2 ^ d)) * (2 ^ (28 - d)) + (a[2] \div (2 ^ d))>>,
               lost |-> a[2] % (2 ^ d) # 0]

\* ------------------------------------------------------------- binary64

DoubleZero == [hi |-> 0, lo |-> 0, e |-> 0]

IsZero(x) == x.hi = 0 /\ x.lo = 0

Mant(x) == <<x.hi, x.lo>>

\* 2^52 and 2^53, the bounds of a normalised mantissa.
MantMin == <<2 ^ 24, 0>>
MantLim == <<2 ^ 25, 0>>

\* The double nearest to q * 2^e + (r + s) * 2^(e - k), where q is a 53-bit
\* mantissa, r < 2 * half is the k dropped bits and s in [0, 1) is positive
\* iff sticky: round to nearest, ties to even.
RoundNearestEven(q, r, half, sticky, e) ==
    LET up == r > half \/ (r = half /\ (sticky \/ q[2] % 2 = 1))
        m  == IF up THEN U56Add(q, <<0, 1>>) ELSE q
    IN  IF m = MantLim THEN [hi |-> MantMin[1], lo |-> MantMin[2], e |-> e + 1]
        ELSE [hi |-> m[1], lo |-> m[2], e |-> e]

\* x + y for x, y >= 0.
DoubleAdd(x, y) ==
    IF IsZero(x) THEN y
    ELSE IF IsZero(y) THEN x
    ELSE LET big   == IF x.e >= y.e THEN x ELSE y
             small == IF x.e >= y.e THEN y ELSE x
             A == U56Double(U56Double(Mant(big)))
             B == U56Shr(U56Double(U56Double(Mant(small))), big.e - small.e)
             T == U56Add(A, B.v)
         IN  IF T[1] < 2 ^ 27
             THEN RoundNearestEven(U56Shr(T, 2).v, T[2] % 4, 2, B.lost, big.e)
             ELSE RoundNearestEven(U56Shr(T, 3).v, T[2] % 8, 4, B.lost, big.e + 1)

\* One step of binary long division by s.d: the next quotient bit of
\* s.rem / s.d is appended to s.q; s.k steps remain.
DivStep(s) ==
    LET r2 == U56Double(s.rem)
    IN  IF U56Geq(r2, s.d)
        THEN [q |-> U56Add(U56Double(s.q), <<0, 1>>), rem |-> U56Sub(r2, s.d),
              d |-> s.d, k |-> s.k - 1]
        ELSE [q |-> U56Double(s.q), rem |-> r2, d |-> s.d, k |-> s.k - 1]

DivStates == [q : Nat \X Nat, rem : Nat \X Nat, d : Nat \X Nat, k : Nat]

\* s.k steps: q becomes floor((s.q * s.d + s.rem) * 2^(s.k) / s.d); s.rem < s.d.
DivLoop[s \in DivStates] == IF s.k = 0 THEN s ELSE DivLoop[DivStep(s)]

\* x / y for x, y > 0: 55 significant quotient bits, then rounded to 53.
DoubleDiv(x, y) ==
    LET N  == Mant(x)
        D  == Mant(y)
        ge == U56Geq(N, D)
        t  == IF ge THEN 54 ELSE 55
        R  == IF ge THEN DivLoop[[q |-> <<0, 1>>, rem |-> U56Sub(N, D), d |-> D, k |-> t]]
                    ELSE DivLoop[[q |-> <<0, 0>>, rem |-> N, d |-> D, k |-> t]]
    IN  RoundNearestEven(U56Shr(R.q, 2).v, R.q[2] % 4, 2, R.rem # <<0, 0>>,
                         x.e - y.e - t + 2)

\* x * m for a size_t m that is a power of two, 2^k: exact.
DoubleTimesPow2(x, k) == [x EXCEPT !.e = @ + k]

\* An integer division, 1 / (1 << bucket): 0 for every bucket above 0.
InversePow2Integer(bucket) ==
    IF bucket = 0 THEN [hi |-> MantMin[1], lo |-> MantMin[2], e |-> 0 - 52] ELSE DoubleZero

\* 1.0 / std::pow(2, bucket)
InversePow2(bucket) == [hi |-> MantMin[1], lo |-> MantMin[2], e |-> (0 - bucket) - 52]

\* ------------------------------------------------- size_t as three limbs

U84Zero == <<0, 0, 0>>

U84Double(a) ==
    LET l0 == 2 * a[3]
        l1 == 2 * a[2] + (l0 \div Limb)
    IN  <<2 * a[1] + (l1 \div Limb), l1 % Limb, l0 % Limb>>

RECURSIVE U84Shl(_, _)
U84Shl(a, k) == IF k = 0 THEN a ELSE U84Shl(U84Double(a), k - 1)

U84Leq(a, b) ==
    \/ a[1] < b[1]
    \/ a[1] = b[1] /\ a[2] < b[2]
    \/ a[1] = b[1] /\ a[2] = b[2] /\ a[3] <= b[3]

\* static_cast<std::size_t>(std::floor(x)) for 0 <= x < 2^64.
FloorToSizeT(x) ==
    IF x.e >= 0 THEN U84Shl(<<0, x.hi, x.lo>>, x.e)
    ELSE LET s == U56Shr(Mant(x), 0 - x.e).v IN <<0, s[1], s[2]>>

\* The bias-correction constant of the estimate, CONSTANT = 0.79402, as a
\* double: 7151896352249442 * 2^-53.
HLL_CONSTANT == [hi |-> 26642890, lo |-> 25941602, e |-> 0 - 53]

\* The k with m = 2^k: the register count is 1 << n_bits.
Log2(m) == CHOOSE k \in 0 .. 30 : 2 ^ k = m

\* The summing loop of ComputeCardinality and of CalBucketSum, from register
\* i on: sum += 1.0 / std::pow(2, value[i]).
RECURSIVE SumFrom(_, _, _, _)
SumFrom(value, m, i, sum) ==
    IF i >= m THEN sum
    ELSE SumFrom(value, m, i + 1, DoubleAdd(sum, InversePow2(value[i])))

\* static_cast<std::size_t>(std::floor(CONSTANT * m * m / sum)), sum > 0.
CalCardinality(m, sum) ==
    FloorToSizeT(DoubleDiv(DoubleTimesPow2(DoubleTimesPow2(HLL_CONSTANT, Log2(m)), Log2(m)), sum))

\* ------------------------------------------------------------ the inputs

\* CalculateHash is the hash function the estimators are given: a fixed
\* (deterministic) map from keys to 64-bit hashes.
KeyHashes ==
    <<
      <<0, 0, 0, 0>>,             \* 1: all zero
      <<16384, 0, 0, 0>>,         \* 2: bit 62
      <<4096, 0, 0, 8>>,          \* 3: bits 60 and 3
      <<32768, 0, 0, 1>>,         \* 4: bits 63 and 0
      <<16384, 0, 1, 0>>,         \* 5: bits 62 and 16
      <<49152, 0, 2, 0>>          \* 6: bits 63, 62 and 17
    >>

CalculateHash(val) == KeyHashes[val]

\* The keys added to the dense and to the compact estimator.
DenseKeys == {1, 2, 3, 4}
PrestoKeys == {1, 3, 4, 5, 6}

\* The threads that call the dense estimator.
Threads == {1, 2}

NoThread == 0

\* ----------------------------------------------------------------- state

VARIABLES
    kind,                \* which object the behaviour is about
    arg_n_bits,          \* the constructor's argument, as passed
    n_bits_,             \* HyperLogLog
    buckets_,
    cardinality_,
    buckets_lock_,       \* the thread that holds the mutex, or NoThread
    pc,                  \* where each thread is in its call
    frame,               \* each thread's local variables
    n_leading_bits_,     \* HyperLogLogPresto
    dense_bucket_,
    overflow_bucket_,
    presto_cardinality_,
    done,                \* history: the keys whose AddElem has returned
    call                 \* history: the last call made, and what it returned

vars == <<kind, arg_n_bits, n_bits_, buckets_, cardinality_, buckets_lock_, pc, frame,
          n_leading_bits_, dense_bucket_, overflow_bucket_, presto_cardinality_,
          done, call>>

dense_vars == <<n_bits_, buckets_, cardinality_, buckets_lock_, pc, frame>>

presto_vars == <<n_leading_bits_, dense_bucket_, overflow_bucket_, presto_cardinality_>>

NoFrame == [val |-> 0, n |-> 0, lmo |-> 0, m |-> 0, sum |-> DoubleZero,
            cardinality |-> U84Zero]

NoCall == [op |-> "none"]

\* ---------------------------------------------------------- construction

\* A clamp that takes the magnitude of a negative precision.
ClampNegated(n_bits) == IF n_bits < 0 THEN 0 - n_bits ELSE n_bits

\* if (n_bits < 0) n_bits = 0;
ClampBits(n_bits) == IF n_bits < 0 THEN 0 ELSE n_bits

\* std::vector<...>(1 << n_bits, 0)
ZeroRegisters(n_bits) == [i \in 0 .. ((2 ^ n_bits) - 1) |-> 0]

NoDense ==
    /\ n_bits_ = 0
    /\ buckets_ = <<>>
    /\ cardinality_ = U84Zero
    /\ buckets_lock_ = NoThread
    /\ pc = [t \in Threads |-> "idle"]
    /\ frame = [t \in Threads |-> NoFrame]

NoPresto ==
    /\ n_leading_bits_ = 0
    /\ dense_bucket_ = <<>>
    /\ overflow_bucket_ = <<>>
    /\ presto_cardinality_ = U84Zero

\* HyperLogLog::HyperLogLog(n_bits)
NewHyperLogLog(n_bits) ==
    /\ kind = "dense"
    /\ arg_n_bits = n_bits
    /\ n_bits_ = ClampBits(n_bits)
    /\ buckets_ = ZeroRegisters(ClampBits(n_bits))
    /\ cardinality_ = U84Zero
    /\ buckets_lock_ = NoThread
    /\ pc = [t \in Threads |-> "idle"]
    /\ frame = [t \in Threads |-> NoFrame]
    /\ NoPresto
    /\ done = {}
    /\ call = NoCall

\* HyperLogLogPresto::HyperLogLogPresto(n_leading_bits)
NewHyperLogLogPresto(n_leading_bits) ==
    /\ kind = "presto"
    /\ arg_n_bits = n_leading_bits
    /\ n_leading_bits_ = ClampBits(n_leading_bits)
    /\ dense_bucket_ = ZeroRegisters(ClampBits(n_leading_bits))
    /\ overflow_bucket_ = <<>>
    /\ presto_cardinality_ = U84Zero
    /\ NoDense
    /\ done = {}
    /\ call = NoCall

Init ==
    \E n_bits \in (0 - 1) .. MaxBits :
        NewHyperLogLog(n_bits) \/ NewHyperLogLogPresto(n_bits)

\* ------------------------------------------------------- HyperLogLog

\* Whether thread t may take the mutex: std::lock_guard blocks while another
\* thread holds it.
MutexIgnored(t) == TRUE

MutexFree(t) == buckets_lock_ = NoThread

\* A test that returns only when the rank equals the register.
RankEqual(lmo, bucket) == lmo = bucket

\* if (lmo <= this->buckets_[n]) return;
RankNotGreater(lmo, bucket) == lmo <= bucket

\* A test that is missing: the estimate is stored whatever it is.
NeverReturns(cardinality, stored) == FALSE

\* A test in the wrong direction: it returns when the estimate is not less.
CardinalityNotLess(cardinality, stored) == U84Leq(stored, cardinality)

\* if (cardinality <= this->cardinality_) return;
CardinalityNotGreater(cardinality, stored) == U84Leq(cardinality, stored)

\* The end of a call of thread t.
Return(t) ==
    /\ pc' = [pc EXCEPT ![t] = "idle"]
    /\ frame' = [frame EXCEPT ![t] = NoFrame]

\* HyperLogLog::AddElem, up to the critical section: hash, bit view, register
\* index and rank.
AddElem(t, val) ==
    /\ kind = "dense"
    /\ pc[t] = "idle"
    /\ LET hash == CalculateHash(val)
           b    == ComputeBinary(hash)
       IN  frame' = [frame EXCEPT ![t] = [NoFrame EXCEPT !.val = val,
                                                          !.n = ComputeBucket(b, n_bits_),
                                                          !.lmo = PositionOfLeftmostOne(b, n_bits_)]]
    /\ pc' = [pc EXCEPT ![t] = "add_lock"]
    /\ UNCHANGED <<kind, arg_n_bits, n_bits_, buckets_, cardinality_, buckets_lock_,
                   presto_vars, done, call>>

\* std::lock_guard<std::mutex> lock(this->buckets_lock_);
AddLock(t) ==
    /\ pc[t] = "add_lock"
    /\ MutexFree(t)
    /\ buckets_lock_' = t
    /\ pc' = [pc EXCEPT ![t] = "add_cmp"]
    /\ UNCHANGED <<kind, arg_n_bits, n_bits_, buckets_, cardinality_, frame,
                   presto_vars, done, call>>

\* if (lmo <= this->buckets_[n]) return;
AddCompare(t) ==
    /\ pc[t] = "add_cmp"
    /\ IF RankNotGreater(frame[t].lmo, buckets_[frame[t].n])
       THEN /\ buckets_lock_' = NoThread
            /\ done' = done \cup {frame[t].val}
            /\ Return(t)
       ELSE /\ pc' = [pc EXCEPT ![t] = "add_store"]
            /\ UNCHANGED <<buckets_lock_, done, frame>>
    /\ UNCHANGED <<kind, arg_n_bits, n_bits_, buckets_, cardinality_, presto_vars, call>>

\* this->buckets_[n] = lmo; and the end of the critical section.
AddStore(t) ==
    /\ pc[t] = "add_store"
    /\ buckets_' = [buckets_ EXCEPT ![frame[t].n] = frame[t].lmo]
    /\ buckets_lock_' = NoThread
    /\ done' = done \cup {frame[t].val}
    /\ Return(t)
    /\ UNCHANGED <<kind, arg_n_bits, n_bits_, cardinality_, presto_vars, call>>

\* HyperLogLog::ComputeCardinality: double sum = 0.0;
ComputeCardinality(t) ==
    /\ kind = "dense"
    /\ pc[t] = "idle"
    /\ pc' = [pc EXCEPT ![t] = "cc_lock1"]
    /\ frame' = [frame EXCEPT ![t] = NoFrame]
    /\ UNCHANGED <<kind, arg_n_bits, n_bits_, buckets_, cardinality_, buckets_lock_,
                   presto_vars, done, call>>

\* The first lock_guard of ComputeCardinality.
SumLock(t) ==
    /\ pc[t] = "cc_lock1"
    /\ MutexFree(t)
    /\ buckets_lock_' = t
    /\ pc' = [pc EXCEPT ![t] = "cc_sum"]
    /\ UNCHANGED <<kind, arg_n_bits, n_bits_, buckets_, cardinality_, frame,
                   presto_vars, done, call>>

\* m = this->buckets_.size(); the loop over the registers; and the end of the
\* first critical section.
SumBuckets(t) ==
    /\ pc[t] = "cc_sum"
    /\ LET m == Cardinality(DOMAIN buckets_)
       IN  frame' = [frame EXCEPT ![t].m = m,
                                  ![t].sum = SumFrom(buckets_, m, 0, DoubleZero)]
    /\ buckets_lock_' = NoThread
    /\ pc' = [pc EXCEPT ![t] = "cc_calc"]
    /\ UNCHANGED <<kind, arg_n_bits, n_bits_, buckets_, cardinality_, presto_vars, done, call>>

\* if (sum <= 0) return; and the estimate.
Estimate(t) ==
    /\ pc[t] = "cc_calc"
    /\ IF IsZero(frame[t].sum)
       THEN Return(t)
       ELSE /\ frame' = [frame EXCEPT ![t].cardinality =
                                          CalCardinality(frame[t].m, frame[t].sum)]
            /\ pc' = [pc EXCEPT ![t] = "cc_lock2"]
    /\ UNCHANGED <<kind, arg_n_bits, n_bits_, buckets_, cardinality_, buckets_lock_,
                   presto_vars, done, call>>

\* The second lock_guard of ComputeCardinality.
CardinalityLock(t) ==
    /\ pc[t] = "cc_lock2"
    /\ MutexFree(t)
    /\ buckets_lock_' = t
    /\ pc' = [pc EXCEPT ![t] = "cc_cmp"]
    /\ UNCHANGED <<kind, arg_n_bits, n_bits_, buckets_, cardinality_, frame,
                   presto_vars, done, call>>

\* if (cardinality <= this->cardinality_) return;
CardinalityCompare(t) ==
    /\ pc[t] = "cc_cmp"
    /\ IF CardinalityNotGreater(frame[t].cardinality, cardinality_)
       THEN /\ buckets_lock_' = NoThread
            /\ Return(t)
       ELSE /\ pc' = [pc EXCEPT ![t] = "cc_store"]
            /\ UNCHANGED <<buckets_lock_, frame>>
    /\ UNCHANGED <<kind, arg_n_bits, n_bits_, buckets_, cardinality_, presto_vars, done, call>>

\* this->cardinality_ = cardinality; and the end of the critical section.
CardinalityStore(t) ==
    /\ pc[t] = "cc_store"
    /\ cardinality_' = frame[t].cardinality
    /\ buckets_lock_' = NoThread
    /\ Return(t)
    /\ UNCHANGED <<kind, arg_n_bits, n_bits_, buckets_, presto_vars, done, call>>

DenseNext ==
    \E t \in Threads :
        \/ \E val \in DenseKeys : AddElem(t, val)
        \/ AddLock(t)
        \/ AddCompare(t)
        \/ AddStore(t)
        \/ ComputeCardinality(t)
        \/ SumLock(t)
        \/ SumBuckets(t)
        \/ Estimate(t)
        \/ CardinalityLock(t)
        \/ CardinalityCompare(t)
        \/ CardinalityStore(t)

\* ------------------------------------------------- HyperLogLogPresto

\* HyperLogLogPresto::GetBucketValue(index), on the registers given.
GetBucketValue(dense_bucket, overflow_bucket, index) ==
    LET dense == dense_bucket[index]
    IN  IF index \notin DOMAIN overflow_bucket
        THEN dense
        ELSE dense + overflow_bucket[index] * (2 ^ DENSE_BUCKET_SIZE)

\* A write of the whole value to the dense field, unmasked.
SetDenseUnmasked(dense_bucket, index, value) == [dense_bucket EXCEPT ![index] = value]

\* this->dense_bucket_[index] = value & 0x0F;
SetDense(dense_bucket, index, value) ==
    [dense_bucket EXCEPT ![index] = value % (2 ^ DENSE_BUCKET_SIZE)]

\* A write that replaces the map by the one entry.
PutOverflowAlone(overflow_bucket, index, overflow) ==
    [i \in {index} |-> overflow % (2 ^ OVERFLOW_BUCKET_SIZE)]

\* overflow_bucket_[index] = overflow, an entry of OVERFLOW_BUCKET_SIZE bits,
\* inserted if index has none.
PutOverflow(overflow_bucket, index, overflow) ==
    [i \in (DOMAIN overflow_bucket) \cup {index} |->
        IF i = index THEN overflow % (2 ^ OVERFLOW_BUCKET_SIZE) ELSE overflow_bucket[i]]

\* A write without the early return: an entry is stored even when it is 0.
SetOverflowAlways(overflow_bucket, index, value) ==
    PutOverflow(overflow_bucket, index, value \div (2 ^ DENSE_BUCKET_SIZE))

\* auto overflow = value >> DENSE_BUCKET_SIZE;
\* if (overflow <= 0) return; this->overflow_bucket_[index] = overflow;
SetOverflow(overflow_bucket, index, value) ==
    LET overflow == value \div (2 ^ DENSE_BUCKET_SIZE)
    IN  IF overflow <= 0 THEN overflow_bucket
        ELSE PutOverflow(overflow_bucket, index, overflow)

\* HyperLogLogPresto::SetBucketValue(index, value)
SetBucketValue(index, value) ==
    /\ dense_bucket_' = SetDense(dense_bucket_, index, value)
    /\ overflow_bucket_' = SetOverflow(overflow_bucket_, index, value)

\* A test that writes whenever the rank differs from the register.
RankDiffers(rmo, current) == rmo # current

\* if (rmo > current)
RankGreater(rmo, current) == rmo > current

\* The loop of HyperLogLogPresto::CalBucketSum, on the registers given.
BucketSum(dense_bucket, overflow_bucket) ==
    LET m == Cardinality(DOMAIN dense_bucket)
        value == [i \in DOMAIN dense_bucket |->
                     GetBucketValue(dense_bucket, overflow_bucket, i)]
    IN  SumFrom(value, m, 0, DoubleZero)

\* HyperLogLogPresto::CalBucketSum
CalBucketSum == BucketSum(dense_bucket_, overflow_bucket_)

\* The end of HyperLogLogPresto::AddElem: the register is read, compared with
\* the rank and written.
UpdateBucket(val, bucket_index, rmo) ==
    LET current == GetBucketValue(dense_bucket_, overflow_bucket_, bucket_index)
    IN  /\ IF RankGreater(rmo, current)
           THEN SetBucketValue(bucket_index, rmo)
           ELSE UNCHANGED <<dense_bucket_, overflow_bucket_>>
        /\ call' = [op |-> "AddElem", val |-> val, index |-> bucket_index,
                    again |-> val \in done]

\* The bit view of HyperLogLogPresto::AddElem: register index and rank.
HashAndUpdate(val, bit) ==
    UpdateBucket(val, ComputeBucketIndex(bit, n_leading_bits_),
                 PositionOfRightMostOne(bit, n_leading_bits_))

\* HyperLogLogPresto::AddElem(val), run to its end.
PrestoAddElem(val) ==
    /\ kind = "presto"
    /\ HashAndUpdate(val, ComputeBinary(CalculateHash(val)))
    /\ done' = done \cup {val}
    /\ UNCHANGED <<kind, arg_n_bits, dense_vars, n_leading_bits_, presto_cardinality_>>

\* HyperLogLogPresto::ComputeCardinality, run to its end.
PrestoComputeCardinality ==
    /\ kind = "presto"
    /\ LET sum         == CalBucketSum
           cardinality == CalCardinality(Cardinality(DOMAIN dense_bucket_), sum)
       IN  /\ IF U84Leq(cardinality, presto_cardinality_)
              THEN UNCHANGED presto_cardinality_
              ELSE presto_cardinality_' = cardinality
           /\ call' = [op |-> "ComputeCardinality", value |-> cardinality]
    /\ UNCHANGED <<kind, arg_n_bits, dense_vars, n_leading_bits_, dense_bucket_,
                   overflow_bucket_, done>>

PrestoNext ==
    \/ \E val \in PrestoKeys : PrestoAddElem(val)
    \/ PrestoComputeCardinality

Next == DenseNext \/ PrestoNext

Spec == Init /\ [][Next]_vars

\* ------------------------------------------ the bit utilities on their own

\* The hashes the bit utilities are applied to.
BitsHashes ==
    {0, 1, 8192, 16384, 32768, 40960, 49152} \X {0, 1} \X {0, 32768} \X {0, 1, 2, 32768}

InitBits ==
    /\ kind = "bits"
    /\ arg_n_bits \in 0 .. MaxPrecision
    /\ n_bits_ = arg_n_bits
    /\ n_leading_bits_ = arg_n_bits
    /\ buckets_ = <<>>
    /\ cardinality_ = U84Zero
    /\ buckets_lock_ = NoThread
    /\ pc = [t \in Threads |-> "idle"]
    /\ frame = [t \in Threads |-> NoFrame]
    /\ dense_bucket_ = <<>>
    /\ overflow_bucket_ = <<>>
    /\ presto_cardinality_ = U84Zero
    /\ done = {}
    /\ \E hash \in BitsHashes : call = [op |-> "none", hash |-> hash, ret |-> 0]

CallPositionOfLeftmostOne ==
    /\ kind = "bits"
    /\ call' = [op |-> "PositionOfLeftmostOne", hash |-> call.hash,
                ret |-> PositionOfLeftmostOne(ComputeBinary(call.hash), n_bits_)]
    /\ UNCHANGED <<kind, arg_n_bits, dense_vars, presto_vars, done>>

CallComputeBucket ==
    /\ kind = "bits"
    /\ call' = [op |-> "ComputeBucket", hash |-> call.hash,
                ret |-> ComputeBucket(ComputeBinary(call.hash), n_bits_)]
    /\ UNCHANGED <<kind, arg_n_bits, dense_vars, presto_vars, done>>

CallPositionOfRightMostOne ==
    /\ kind = "bits"
    /\ call' = [op |-> "PositionOfRightMostOne", hash |-> call.hash,
                ret |-> PositionOfRightMostOne(ComputeBinary(call.hash), n_leading_bits_)]
    /\ UNCHANGED <<kind, arg_n_bits, dense_vars, presto_vars, done>>

CallComputeBucketIndex ==
    /\ kind = "bits"
    /\ call' = [op |-> "ComputeBucketIndex", hash |-> call.hash,
                ret |-> ComputeBucketIndex(ComputeBinary(call.hash), n_leading_bits_)]
    /\ UNCHANGED <<kind, arg_n_bits, dense_vars, presto_vars, done>>

NextBits ==
    \/ CallPositionOfLeftmostOne
    \/ CallComputeBucket
    \/ CallPositionOfRightMostOne
    \/ CallComputeBucketIndex

SpecBits == InitBits /\ [][NextBits]_vars

\* --------------------------------- the compact registers, called directly

\* The values written to a register: below and above 2^DENSE_BUCKET_SIZE, up
\* to the widest value a register holds.
RegisterValues == {0, 3, 16, 35, (2 ^ (DENSE_BUCKET_SIZE + OVERFLOW_BUCKET_SIZE)) - 1}

InitRegs ==
    /\ kind = "regs"
    /\ arg_n_bits \in 0 .. MaxBits
    /\ n_leading_bits_ = ClampBits(arg_n_bits)
    /\ dense_bucket_ = ZeroRegisters(ClampBits(arg_n_bits))
    /\ overflow_bucket_ = <<>>
    /\ presto_cardinality_ = U84Zero
    /\ NoDense
    /\ done = {}
    /\ call = NoCall

\* The register indexes of the largest register array.
Indexes == 0 .. ((2 ^ MaxBits) - 1)

CallSetBucketValue(index, value) ==
    /\ kind = "regs"
    /\ index \in DOMAIN dense_bucket_
    /\ SetBucketValue(index, value)
    /\ call' = [op |-> "SetBucketValue", index |-> index, value |-> value,
                had |-> index \in DOMAIN overflow_bucket_]
    /\ UNCHANGED <<kind, arg_n_bits, dense_vars, n_leading_bits_, presto_cardinality_, done>>

CallGetBucketValue(index) ==
    /\ kind = "regs"
    /\ index \in DOMAIN dense_bucket_
    /\ call' = [op |-> "GetBucketValue", index |-> index,
                ret |-> GetBucketValue(dense_bucket_, overflow_bucket_, index)]
    /\ UNCHANGED <<kind, arg_n_bits, dense_vars, presto_vars, done>>

NextRegs ==
    \E index \in Indexes :
        \/ \E value \in RegisterValues : CallSetBucketValue(index, value)
        \/ CallGetBucketValue(index)

SpecRegs == InitRegs /\ [][NextRegs]_vars

\* ------------------------ the compact estimator, called by two threads

\* HyperLogLogPresto takes no lock: the statements of AddElem, GetBucketValue
\* and SetBucketValue of one thread interleave with those of the other. pc
\* and frame hold each thread's position and locals; call.dipped records that
\* a dense write that an overflow write follows has lowered the combined
\* value of a register.
RaceKeys == {3, 5, 6}

NoRaceFrame == [val |-> 0, index |-> 0, rmo |-> 0, dense |-> 0]

InitRace ==
    /\ kind = "race"
    /\ arg_n_bits \in 0 .. MaxBits
    /\ n_leading_bits_ = ClampBits(arg_n_bits)
    /\ dense_bucket_ = ZeroRegisters(ClampBits(arg_n_bits))
    /\ overflow_bucket_ = <<>>
    /\ presto_cardinality_ = U84Zero
    /\ n_bits_ = 0
    /\ buckets_ = <<>>
    /\ cardinality_ = U84Zero
    /\ buckets_lock_ = NoThread
    /\ pc = [t \in Threads |-> "idle"]
    /\ frame = [t \in Threads |-> NoRaceFrame]
    /\ done = {}
    /\ call = [op |-> "race", dipped |-> FALSE]

\* Whether the step lowers the value GetBucketValue returns for a register.
Dips ==
    \E i \in DOMAIN dense_bucket_ :
        GetBucketValue(dense_bucket_', overflow_bucket_', i)
            < GetBucketValue(dense_bucket_, overflow_bucket_, i)

RaceUnchanged ==
    UNCHANGED <<kind, arg_n_bits, n_bits_, buckets_, cardinality_, buckets_lock_,
                n_leading_bits_, presto_cardinality_>>

RaceReturn(t) ==
    /\ pc' = [pc EXCEPT ![t] = "idle"]
    /\ frame' = [frame EXCEPT ![t] = NoRaceFrame]
    /\ done' = done \cup {frame[t].val}

\* AddElem(val), up to the call of GetBucketValue: hash, index and rank.
RaceAddElem(t, val) ==
    /\ kind = "race"
    /\ pc[t] = "idle"
    /\ LET bit == ComputeBinary(CalculateHash(val))
       IN  frame' = [frame EXCEPT ![t] =
                        [val |-> val,
                         index |-> ComputeBucketIndex(bit, n_leading_bits_),
                         rmo |-> PositionOfRightMostOne(bit, n_leading_bits_),
                         dense |-> 0]]
    /\ pc' = [pc EXCEPT ![t] = "get_dense"]
    /\ UNCHANGED <<dense_bucket_, overflow_bucket_, done, call>>
    /\ RaceUnchanged

\* auto dense = this->dense_bucket_[index];
RaceGetDense(t) ==
    /\ kind = "race"
    /\ pc[t] = "get_dense"
    /\ frame' = [frame EXCEPT ![t].dense = dense_bucket_[frame[t].index]]
    /\ pc' = [pc EXCEPT ![t] = "get_overflow"]
    /\ UNCHANGED <<dense_bucket_, overflow_bucket_, done, call>>
    /\ RaceUnchanged

\* The rest of GetBucketValue, on the dense field read before, and the test
\* of AddElem: if (rmo > current).
RaceFindOverflow(t) ==
    /\ kind = "race"
    /\ pc[t] = "get_overflow"
    /\ LET index   == frame[t].index
           current == GetBucketValue([dense_bucket_ EXCEPT ![index] = frame[t].dense],
                                     overflow_bucket_, index)
       IN  IF RankGreater(frame[t].rmo, current)
           THEN /\ pc' = [pc EXCEPT ![t] = "set_dense"]
                /\ UNCHANGED <<frame, done>>
           ELSE RaceReturn(t)
    /\ UNCHANGED <<dense_bucket_, overflow_bucket_, call>>
    /\ RaceUnchanged

\* this->dense_bucket_[index] = value & 0x0F; and if (overflow <= 0) return;
RaceSetDense(t) ==
    /\ kind = "race"
    /\ pc[t] = "set_dense"
    /\ dense_bucket_' = SetDense(dense_bucket_, frame[t].index, frame[t].rmo)
    /\ IF frame[t].rmo \div (2 ^ DENSE_BUCKET_SIZE) <= 0
       THEN RaceReturn(t)
       ELSE /\ pc' = [pc EXCEPT ![t] = "set_overflow"]
            /\ UNCHANGED <<frame, done>>
    /\ UNCHANGED overflow_bucket_
    /\ call' = [call EXCEPT !.dipped = @ \/ (Dips /\ pc'[t] = "set_overflow")]
    /\ RaceUnchanged

\* this->overflow_bucket_[index] = overflow;
RaceSetOverflow(t) ==
    /\ kind = "race"
    /\ pc[t] = "set_overflow"
    /\ overflow_bucket_' = SetOverflow(overflow_bucket_, frame[t].index, frame[t].rmo)
    /\ RaceReturn(t)
    /\ UNCHANGED <<dense_bucket_, call>>
    /\ RaceUnchanged

\* The next statement of the call thread t is in.
RaceStep(t) ==
    \/ RaceGetDense(t)
    \/ RaceFindOverflow(t)
    \/ RaceSetDense(t)
    \/ RaceSetOverflow(t)

NextRace ==
    \E t \in Threads :
        \/ \E val \in RaceKeys : RaceAddElem(t, val)
        \/ RaceStep(t)

SpecRace == InitRace /\ [][NextRace]_vars

\* ================================================================ claims

AddPcs == {"add_lock", "add_cmp", "add_store"}

AllIdle == \A t \in Threads : pc[t] = "idle"

\* The largest element of a finite set of naturals, 0 if it is empty.
MaxOf(S) == IF S = {} THEN 0 ELSE CHOOSE x \in S : \A y \in S : y <= x

MinOf(S) == CHOOSE x \in S : \A y \in S : x <= y

\* ---- C1

\* The registers after the step, each at least what it was before.
RegistersGrow ==
    /\ kind = "dense" =>
           \A i \in DOMAIN buckets_ : buckets_'[i] >= buckets_[i]
    /\ kind = "presto" =>
           \A i \in DOMAIN dense_bucket_ :
               GetBucketValue(dense_bucket_', overflow_bucket_', i)
                   >= GetBucketValue(dense_bucket_, overflow_bucket_, i)

\* C1: no step of an AddElem or ComputeCardinality call, in the dense or in
\* the compact estimator, lowers a register (for the compact estimator: the
\* combined value GetBucketValue returns); so no call does.
C1_RegistersNeverDecrease == [][RegistersGrow]_vars

\* Keys 3 (rank 3) and 5 (rank 16) have been added to a compact estimator of
\* one register: the dense field went from 3 to 0 and the value from 3 to 16.
C1_Witness ==
    /\ kind = "presto"
    /\ n_leading_bits_ = 0
    /\ done = {3, 5}
    /\ dense_bucket_[0] = 0
    /\ GetBucketValue(dense_bucket_, overflow_bucket_, 0) = 16

\* ---- C2

\* The stored cardinality after the step is at least what it was, and differs
\* only by the write of a ComputeCardinality whose estimate exceeds it.
CardinalityGrows ==
    /\ U84Leq(cardinality_, cardinality_')
    /\ cardinality_' # cardinality_ =>
           \E t \in Threads :
               /\ pc[t] = "cc_store"
               /\ pc'[t] = "idle"
               /\ cardinality_' = frame[t].cardinality
               /\ ~U84Leq(frame[t].cardinality, cardinality_)
    /\ \A t \in Threads :
           (pc[t] = "cc_cmp" /\ pc'[t] = "idle") => cardinality_' = cardinality_
    /\ U84Leq(presto_cardinality_, presto_cardinality_')
    /\ presto_cardinality_' # presto_cardinality_ =>
           /\ call'.op = "ComputeCardinality"
           /\ presto_cardinality_' = call'.value
           /\ ~U84Leq(call'.value, presto_cardinality_)

\* C2: in every interleaving of the dense estimator's calls and every
\* sequence of the compact estimator's, the stored cardinality never
\* decreases, and only a ComputeCardinality whose estimate is strictly greater
\* than the stored value changes it.
C2_CardinalityNeverDecreases == [][CardinalityGrows]_vars

\* A ComputeCardinality of the dense estimator that summed the registers
\* before a concurrent call stored a greater cardinality: its estimate is
\* below the stored value and is about to be dropped.
C2_Witness ==
    /\ kind = "dense"
    /\ \E t \in Threads :
           /\ pc[t] = "cc_cmp"
           /\ frame[t].cardinality # cardinality_
           /\ U84Leq(frame[t].cardinality, cardinality_)

\* ---- C3

\* The rank of key val in a dense estimator of precision n_bits.
DenseRank(val, n_bits) == PositionOfLeftmostOne(ComputeBinary(CalculateHash(val)), n_bits)

DenseIndex(val, n_bits) == ComputeBucket(ComputeBinary(CalculateHash(val)), n_bits)

InCriticalSection(t) == pc[t] \in {"add_cmp", "add_store", "cc_sum", "cc_cmp", "cc_store"}

\* C3: in the dense estimator a thread is between a register's comparison and
\* its write only while it holds the mutex, and once every AddElem call has
\* returned each register is the greatest rank of the keys added to it,
\* whatever the interleaving.
C3_NoLostUpdate ==
    kind = "dense" =>
        /\ \A t \in Threads : InCriticalSection(t) => buckets_lock_ = t
        /\ AllIdle =>
               \A i \in DOMAIN buckets_ :
                   buckets_[i] = MaxOf({DenseRank(val, n_bits_) :
                                          val \in {v \in done : DenseIndex(v, n_bits_) = i}})

\* Keys 2 (rank 2) and 3 (rank 4) have both been added to the one register,
\* every call has returned, and the register holds 4.
C3_Witness ==
    /\ kind = "dense"
    /\ n_bits_ = 0
    /\ AllIdle
    /\ {2, 3} \subseteq done
    /\ 4 \notin done
    /\ buckets_[0] = 4

\* ---- C4

\* What ComputeCardinality computes from the registers given.
DenseEstimate(buckets) ==
    LET m == Cardinality(DOMAIN buckets)
    IN  CalCardinality(m, SumFrom(buckets, m, 0, DoubleZero))

PrestoEstimate(dense_bucket, overflow_bucket) ==
    CalCardinality(Cardinality(DOMAIN dense_bucket), BucketSum(dense_bucket, overflow_bucket))

\* A step of an AddElem of a key whose AddElem has returned before changes
\* nothing of the estimator, and the estimate of the registers is the same.
RepeatedAddChangesNothing ==
    /\ \A t \in Threads :
           (pc[t] \in AddPcs /\ pc'[t] # pc[t] /\ frame[t].val \in done) =>
               /\ buckets_' = buckets_
               /\ cardinality_' = cardinality_
               /\ DenseEstimate(buckets_') = DenseEstimate(buckets_)
    /\ (kind = "presto" /\ call'.op = "AddElem" /\ call'.again) =>
           /\ dense_bucket_' = dense_bucket_
           /\ overflow_bucket_' = overflow_bucket_
           /\ presto_cardinality_' = presto_cardinality_
           /\ PrestoEstimate(dense_bucket_', overflow_bucket_')
                  = PrestoEstimate(dense_bucket_, overflow_bucket_)

\* C4: an AddElem of a key that has been added before changes no register,
\* no overflow entry and not the cardinality, in either estimator, and the
\* estimate a later ComputeCardinality computes is the one it would have
\* computed without it.
C4_RepeatedAddIsIdempotent == [][RepeatedAddChangesNothing]_vars

\* Key 5 (rank 16, held in an overflow entry) has just been added a second
\* time, after key 3 (rank 3).
C4_Witness ==
    /\ kind = "presto"
    /\ call.op = "AddElem"
    /\ call.val = 5
    /\ call.again
    /\ 3 \in done
    /\ call.index \in DOMAIN overflow_bucket_

\* ---- C5

\* C5: after SetBucketValue(index, value), with value below
\* 2^(DENSE_BUCKET_SIZE + OVERFLOW_BUCKET_SIZE), GetBucketValue(index) is
\* value, whatever was written to the register before.
C5_SetThenGetReturnsValue ==
    (kind = "regs" /\ call.op = "SetBucketValue") =>
        GetBucketValue(dense_bucket_, overflow_bucket_, call.index) = call.value

\* ---- C6

\* The rightmost-one rank of a key's hash: the position of the lowest set bit
\* of the 64 - n_leading_bits low bits, 64 - n_leading_bits if none is set.
TailRank(hash, n_leading_bits) ==
    LET ones == {i \in 0 .. (BITSET_CAPACITY - 1 - n_leading_bits) : HashBit(hash, i) = 1}
    IN  IF ones = {} THEN BITSET_CAPACITY - n_leading_bits ELSE MinOf(ones)

PrestoIndex(val, n_leading_bits) ==
    ComputeBucketIndex(ComputeBinary(CalculateHash(val)), n_leading_bits)

\* C6: after any sequence of AddElem calls on the compact estimator, the
\* value GetBucketValue returns for a register is the greatest rightmost-one
\* rank of the keys added to it (0 if none was): what one unsplit
\* write-if-greater register would hold.
C6_CompactRefinesSingleRegister ==
    kind = "presto" =>
        \A i \in DOMAIN dense_bucket_ :
            GetBucketValue(dense_bucket_, overflow_bucket_, i)
                = MaxOf({TailRank(CalculateHash(val), n_leading_bits_) :
                           val \in {v \in done : PrestoIndex(v, n_leading_bits_) = i}})

\* Keys 3, 5 and 1 (ranks 3, 16 and 64) have been added to the one register:
\* it holds 64, as dense field 0 and overflow entry 4.
C6_Witness ==
    /\ kind = "presto"
    /\ n_leading_bits_ = 0
    /\ {1, 3, 5} \subseteq done
    /\ dense_bucket_[0] = 0
    /\ 0 \in DOMAIN overflow_bucket_
    /\ overflow_bucket_[0] = 4

\* ---- C7

\* Constructed with a precision that is zero or negative, the estimator has
\* one register, and it is 0, and the cardinality is 0.
OneZeroRegister ==
    /\ kind = "dense" => (buckets_ = (0 :> 0) /\ cardinality_ = U84Zero)
    /\ kind = "presto" =>
           /\ dense_bucket_ = (0 :> 0)
           /\ overflow_bucket_ = <<>>
           /\ presto_cardinality_ = U84Zero

\* It keeps one register, and every AddElem goes to register 0.
AddsTargetRegisterZero ==
    /\ kind = "dense" =>
           /\ DOMAIN buckets_ = {0}
           /\ \A t \in Threads : pc[t] \in AddPcs => frame[t].n = 0
    /\ kind = "presto" =>
           /\ DOMAIN dense_bucket_ = {0}
           /\ DOMAIN overflow_bucket_ \subseteq {0}
           /\ call.op = "AddElem" => call.index = 0

\* C7: an estimator constructed with precision <= 0 (negative precisions
\* included) starts with exactly one register, holding 0, and cardinality 0,
\* and every AddElem, whatever the hash, targets register 0.
C7_NonPositivePrecision ==
    /\ arg_n_bits <= 0 => OneZeroRegister
    /\ [](arg_n_bits <= 0 => AddsTargetRegisterZero)

\* Constructed with precision -1, the dense estimator is about to write the
\* rank of key 4, whose hash has bit 63 set, to register 0.
C7_Witness ==
    /\ kind = "dense"
    /\ arg_n_bits = 0 - 1
    /\ \E t \in Threads :
           /\ pc[t] = "add_store"
           /\ frame[t].val = 4
           /\ frame[t].n = 0

\* ---- C8

\* The 1-based positions, counted from the most significant bit of the
\* 64 - n_bits low bits, of the bits of hash that are set there.
TailOnesFromLeft(hash, n_bits) ==
    {k \in 1 .. (BITSET_CAPACITY - n_bits) : HashBit(hash, BITSET_CAPACITY - n_bits - k) = 1}

\* C8: the rank PositionOfLeftmostOne gives the dense AddElem is the 1-based
\* position of the leftmost set bit of the 64 - n_bits low bits of the hash,
\* and 0 when none of them is set.
C8_DenseRankIsLeftmostOne ==
    (kind = "bits" /\ call.op = "PositionOfLeftmostOne") =>
        call.ret = (IF TailOnesFromLeft(call.hash, n_bits_) = {} THEN 0
                    ELSE MinOf(TailOnesFromLeft(call.hash, n_bits_)))

\* Both index bits are set and no bit of the tail is: the rank is 0.
C8_Witness ==
    /\ kind = "bits"
    /\ call.op = "PositionOfLeftmostOne"
    /\ n_bits_ = 2
    /\ call.hash = <<49152, 0, 0, 0>>
    /\ call.ret = 0

\* ---- C9

\* C9: the rank PositionOfRightMostOne gives the compact AddElem is the
\* 0-based position of the lowest set bit of the 64 - n_leading_bits low bits
\* of the hash, and 64 - n_leading_bits when none of them is set.
C9_CompactRankIsRightmostOne ==
    (kind = "bits" /\ call.op = "PositionOfRightMostOne") =>
        call.ret = TailRank(call.hash, n_leading_bits_)

\* Bit 63, an index bit, is set and no bit of the tail is: the rank is 62.
C9_Witness ==
    /\ kind = "bits"
    /\ call.op = "PositionOfRightMostOne"
    /\ n_leading_bits_ = 2
    /\ call.hash = <<32768, 0, 0, 0>>
    /\ call.ret = 62

\* ---- C10

\* C10: for a precision of at least 1 the register index ComputeBucket and
\* ComputeBucketIndex return is the hash's top n_bits bits read as an
\* unsigned integer, floor(hash / 2^(64 - n_bits)).
C10_IndexIsTopBitsValue ==
    (kind = "bits" /\ call.op \in {"ComputeBucket", "ComputeBucketIndex"} /\ n_bits_ >= 1) =>
        call.ret = call.hash[1] \div (2 ^ (16 - n_bits_))

\* ---- C11

\* The top n_bits bits of a hash (n_bits <= 16), and the rest of it.
TopBits(hash, n_bits) == hash[1] \div (2 ^ (16 - n_bits))

TailBits(hash, n_bits) == <<hash[1] % (2 ^ (16 - n_bits)), hash[2], hash[3], hash[4]>>

\* C11: for every hash and precision the register index ComputeBucket and
\* ComputeBucketIndex return is an index of the register array of that
\* precision, in [0, 2^n_bits), and is the same for every hash with the same
\* top n_bits bits; the rank PositionOfLeftmostOne and PositionOfRightMostOne
\* return is the same for every hash with the same low 64 - n_bits bits.
C11_IndexInRangeAndDisjointFromRank ==
    kind = "bits" =>
        /\ call.op \in {"ComputeBucket", "ComputeBucketIndex"} =>
               /\ call.ret \in DOMAIN ZeroRegisters(n_bits_)
               /\ call.ret >= 0 /\ call.ret < 2 ^ n_bits_
               /\ \A h \in BitsHashes :
                      TopBits(h, n_bits_) = TopBits(call.hash, n_bits_) =>
                          /\ ComputeBucket(ComputeBinary(h), n_bits_) = call.ret
                          /\ ComputeBucketIndex(ComputeBinary(h), n_bits_) = call.ret
        /\ call.op = "PositionOfLeftmostOne" =>
               \A h \in BitsHashes :
                   TailBits(h, n_bits_) = TailBits(call.hash, n_bits_) =>
                       PositionOfLeftmostOne(ComputeBinary(h), n_bits_) = call.ret
        /\ call.op = "PositionOfRightMostOne" =>
               \A h \in BitsHashes :
                   TailBits(h, n_bits_) = TailBits(call.hash, n_bits_) =>
                       PositionOfRightMostOne(ComputeBinary(h), n_bits_) = call.ret

\* At precision 3 a hash with bits 63 and 61 set, and tail bits set too, has
\* been given index 5, the last but two of 8 registers.
C11_Witness ==
    /\ kind = "bits"
    /\ call.op = "ComputeBucketIndex"
    /\ n_leading_bits_ = 3
    /\ call.hash = <<40960, 1, 32768, 1>>
    /\ call.ret = 5

\* ---- C12

\* C12: in every state the compact estimator reaches by AddElem and
\* ComputeCardinality calls run one at a time, a register has an overflow
\* entry only if its combined value is at least 16, its dense field is the
\* combined value & 0xF, and its overflow entry, when there is one, is the
\* combined value >> 4 and is positive.
C12_CompactRepresentation ==
    kind = "presto" =>
        \A i \in DOMAIN dense_bucket_ :
            LET combined == GetBucketValue(dense_bucket_, overflow_bucket_, i)
            IN  /\ dense_bucket_[i] = combined % (2 ^ DENSE_BUCKET_SIZE)
                /\ i \in DOMAIN overflow_bucket_ =>
                       /\ combined >= 2 ^ DENSE_BUCKET_SIZE
                       /\ overflow_bucket_[i] = combined \div (2 ^ DENSE_BUCKET_SIZE)
                       /\ overflow_bucket_[i] > 0

\* All five keys have been added at precision 1: register 0 holds 63 (dense
\* field 15, overflow entry 3) and register 1 holds 17 (1 and 1).
C12_Witness ==
    /\ kind = "presto"
    /\ n_leading_bits_ = 1
    /\ done = PrestoKeys
    /\ dense_bucket_ = (0 :> 15 @@ 1 :> 1)
    /\ overflow_bucket_ = (0 :> 3 @@ 1 :> 1)

\* ---- C13

\* What a step that is a call SetBucketValue(index, value) does to the
\* registers.
SetBucketValueEffect ==
    call'.op = "SetBucketValue" =>
        LET index    == call'.index
            overflow == call'.value \div (2 ^ DENSE_BUCKET_SIZE)
        IN  /\ DOMAIN dense_bucket_' = DOMAIN dense_bucket_
            /\ dense_bucket_'[index] = call'.value % (2 ^ DENSE_BUCKET_SIZE)
            /\ overflow > 0 =>
                   /\ DOMAIN overflow_bucket_' = DOMAIN overflow_bucket_ \cup {index}
                   /\ overflow_bucket_'[index] = overflow
            /\ overflow = 0 => overflow_bucket_' = overflow_bucket_
            /\ DOMAIN overflow_bucket_ \subseteq DOMAIN overflow_bucket_'
            /\ \A i \in DOMAIN overflow_bucket_' : overflow_bucket_'[i] > 0
            /\ \A i \in DOMAIN dense_bucket_ \ {index} :
                   /\ dense_bucket_'[i] = dense_bucket_[i]
                   /\ i \in DOMAIN overflow_bucket_' <=> i \in DOMAIN overflow_bucket_
                   /\ i \in DOMAIN overflow_bucket_ =>
                          overflow_bucket_'[i] = overflow_bucket_[i]

\* C13: SetBucketValue(index, value) writes value & 0xF to the dense field of
\* index; if value >> 4 > 0 it inserts or overwrites the overflow entry of
\* index with value >> 4; if value >> 4 = 0 it leaves the overflow map as it
\* is, a prior entry of index included (no entry is removed or becomes 0); the
\* dense field and the overflow entry of every other index are unchanged.
C13_SetBucketValueFrame == [][SetBucketValueEffect]_vars

\* A value below 16 has been written to a register that had an overflow
\* entry: the entry is still there, beside the new dense field.
C13_Witness ==
    /\ kind = "regs"
    /\ call.op = "SetBucketValue"
    /\ call.value = 3
    /\ call.had
    /\ dense_bucket_[call.index] = 3
    /\ call.index \in DOMAIN overflow_bucket_
    /\ overflow_bucket_[call.index] = 2

\* ---- C14

\* Thread t takes the step, and it is a step of an AddElem call.
IsAddStep(t) == pc'[t] # pc[t] /\ (pc[t] \in AddPcs \/ pc'[t] = "add_lock")

\* Thread t takes the step, and it is a step of a ComputeCardinality call.
IsComputeStep(t) == pc'[t] # pc[t] /\ ~IsAddStep(t)

\* What the steps of the two operations leave alone.
OperationFrames ==
    /\ kind = "dense" =>
           \A t \in Threads :
               /\ IsAddStep(t) =>
                      LET locals == IF pc[t] = "idle" THEN frame'[t] ELSE frame[t]
                          n      == DenseIndex(locals.val, n_bits_)
                      IN  /\ cardinality_' = cardinality_
                          /\ DOMAIN buckets_' = DOMAIN buckets_
                          /\ locals.n = n
                          /\ \A i \in DOMAIN buckets_ \ {n} : buckets_'[i] = buckets_[i]
               /\ IsComputeStep(t) => buckets_' = buckets_
    /\ (kind = "presto" /\ call'.op = "AddElem") =>
           LET index == PrestoIndex(call'.val, n_leading_bits_)
           IN  /\ presto_cardinality_' = presto_cardinality_
               /\ call'.index = index
               /\ DOMAIN dense_bucket_' = DOMAIN dense_bucket_
               /\ \A i \in DOMAIN dense_bucket_ \ {index} :
                      /\ dense_bucket_'[i] = dense_bucket_[i]
                      /\ i \in DOMAIN overflow_bucket_' <=> i \in DOMAIN overflow_bucket_
                      /\ i \in DOMAIN overflow_bucket_ =>
                             overflow_bucket_'[i] = overflow_bucket_[i]
    /\ (kind = "presto" /\ call'.op = "ComputeCardinality") =>
           /\ dense_bucket_' = dense_bucket_
           /\ overflow_bucket_' = overflow_bucket_

\* C14: in both estimators a step of an AddElem call changes no register but
\* the one the index bits of the key's hash select, and not the stored
\* cardinality; a step of a ComputeCardinality call, with the GetBucketValue
\* calls it makes, changes no register, dense field or overflow entry and
\* adds no overflow entry.
C14_OperationFrames == [][OperationFrames]_vars

\* At precision 1 keys 1 and 6 have been added to the compact estimator: both
\* registers have an overflow entry, and the cardinality is still 0.
C14_Witness ==
    /\ kind = "presto"
    /\ n_leading_bits_ = 1
    /\ {1, 6} \subseteq done
    /\ call.op = "AddElem"
    /\ DOMAIN overflow_bucket_ = {0, 1}
    /\ presto_cardinality_ = U84Zero

\* ---- C15

\* Thread t is in a ComputeCardinality call, after its reading of the
\* registers and before its comparison and write of the cardinality.
BetweenSumAndCompare(t) == pc[t] \in {"cc_calc", "cc_lock2"}

\* C15: every AddElem and ComputeCardinality call of the dense estimator
\* makes all its accesses to the registers and the cardinality in one
\* critical section: a thread in one holds the mutex, and while a
\* ComputeCardinality call is between its reading of the registers and its
\* comparison and write of the cardinality, no other thread is in a critical
\* section of an AddElem or ComputeCardinality call.
C15_OneCriticalSectionPerCall ==
    kind = "dense" =>
        \A t \in Threads :
            /\ InCriticalSection(t) => buckets_lock_ = t
            /\ BetweenSumAndCompare(t) =>
                   \A u \in Threads \ {t} : ~InCriticalSection(u)

\* ---- C16

\* The keys whose AddElem has returned or is in progress, mapped to register i.
RaceStarted(i) ==
    {val \in done \cup {frame[t].val : t \in {u \in Threads : pc[u] # "idle"}} :
        PrestoIndex(val, n_leading_bits_) = i}

RaceRanks(i) == {TailRank(CalculateHash(val), n_leading_bits_) : val \in RaceStarted(i)}

\* C16: the compact AddElem takes no lock: a thread in a call can always take
\* its next step, wherever the other thread is, and the dense field and the
\* overflow entry of a register are written in separate steps, so that a
\* register holds the low four bits of the rank of one key added to it and the
\* high bits of the rank of a key added to it that may be another one, and
\* not always the greatest rank added (the witness).
C16_CompactAddIsUnguarded ==
    kind = "race" =>
        /\ \A t \in Threads : pc[t] # "idle" => ENABLED RaceStep(t)
        /\ \A i \in DOMAIN dense_bucket_ :
               /\ dense_bucket_[i] \in
                      {0} \cup {r % (2 ^ DENSE_BUCKET_SIZE) : r \in RaceRanks(i)}
               /\ i \in DOMAIN overflow_bucket_ =>
                      /\ overflow_bucket_[i] > 0
                      /\ overflow_bucket_[i] \in
                             {r \div (2 ^ DENSE_BUCKET_SIZE) : r \in RaceRanks(i)}

\* Keys 5 and 6 (ranks 16 and 17) have been added by two threads to the one
\* register and both calls have returned: the register holds 16, not 17, and
\* between a dense write and the overflow write that followed it the value of
\* the register was lower than before.
C16_Witness ==
    /\ kind = "race"
    /\ n_leading_bits_ = 0
    /\ AllIdle
    /\ done = {5, 6}
    /\ GetBucketValue(dense_bucket_, overflow_bucket_, 0) = 16
    /\ call.dipped

\* ---- C17

\* The stored cardinality is never above the estimate of the registers.
StoredNotAboveEstimate ==
    /\ kind = "dense" => U84Leq(cardinality_, DenseEstimate(buckets_))
    /\ kind = "presto" =>
           U84Leq(presto_cardinality_, PrestoEstimate(dense_bucket_, overflow_bucket_))

\* Thread t ends a ComputeCardinality call with this step, no other call is
\* in progress and the registers sum to what the call read.
EndsComputeAlone(t) ==
    /\ pc[t] \in {"cc_cmp", "cc_store"}
    /\ pc'[t] = "idle"
    /\ \A u \in Threads \ {t} : pc[u] = "idle"
    /\ frame[t].sum = SumFrom(buckets_, Cardinality(DOMAIN buckets_), 0, DoubleZero)

\* At the end of such a call the stored cardinality is the estimate of the
\* registers, and it was left as it was only if it was that estimate already.
ComputeStoresEstimate ==
    /\ kind = "dense" =>
           \A t \in Threads :
               EndsComputeAlone(t) =>
                   /\ cardinality_' = DenseEstimate(buckets_')
                   /\ pc[t] = "cc_cmp" => frame[t].cardinality = cardinality_
    /\ (kind = "presto" /\ call'.op = "ComputeCardinality") =>
           /\ presto_cardinality_' = PrestoEstimate(dense_bucket_', overflow_bucket_')
           /\ presto_cardinality_' = call'.value

\* C17: in both estimators the stored cardinality is never greater than the
\* estimate floor(CONSTANT * m * m / sum) of the current registers, and after
\* a ComputeCardinality call that ran with no concurrent operation it equals
\* that estimate: the call leaves the stored value alone only when it equals
\* the fresh estimate.
C17_CardinalityTracksRegisters == []StoredNotAboveEstimate /\ [][ComputeStoresEstimate]_vars

\* After keys were added and a ComputeCardinality stored their estimate, a
\* second ComputeCardinality, alone, has computed the same estimate and is
\* about to leave the stored value alone.
C17_Witness ==
    /\ kind = "dense"
    /\ done # {}
    /\ cardinality_ # U84Zero
    /\ cardinality_ = DenseEstimate(buckets_)
    /\ \E t \in Threads :
           /\ pc[t] = "cc_cmp"
           /\ frame[t].cardinality = cardinality_
           /\ \A u \in Threads \ {t} : pc[u] = "idle"

\* ---- C18

\* C18: in every reachable state of both estimators the sum of 2^(-register)
\* over the registers is strictly positive, and so is the sum a dense
\* ComputeCardinality has read: the dense call never takes its sum <= 0
\* return, and the compact call, which has no such test, never divides by 0.
C18_SumIsPositive ==
    /\ kind = "dense" =>
           /\ ~IsZero(SumFrom(buckets_, Cardinality(DOMAIN buckets_), 0, DoubleZero))
           /\ \A t \in Threads :
                  pc[t] = "cc_calc" => (~IsZero(frame[t].sum) /\ frame[t].m > 0)
    /\ kind = "presto" => ~IsZero(CalBucketSum)

\* At precision 1 register 1 holds 63, the greatest rank, and a
\* ComputeCardinality has summed the registers: the sum is not 0.
C18_Witness ==
    /\ kind = "dense"
    /\ n_bits_ = 1
    /\ buckets_[1] = 63
    /\ \E t \in Threads :
           /\ pc[t] = "cc_calc"
           /\ frame[t].sum = SumFrom(buckets_, 2, 0, DoubleZero)
           /\ ~IsZero(frame[t].sum)

\* ---- C19

\* The leftmost-one rank of a hash: the position, counted from 1 at bit
\* 63 - n_bits, of the highest set bit of the 64 - n_bits low bits, 0 if none.
HeadRank(hash, n_bits) ==
    IF TailOnesFromLeft(hash, n_bits) = {} THEN 0
    ELSE MinOf(TailOnesFromLeft(hash, n_bits))

\* The keys whose AddElem has returned or is in progress.
Started == done \cup {frame[t].val : t \in {u \in Threads : pc[u] \in AddPcs}}

\* C19: every register of the dense estimator and every combined register
\* value of the compact estimator is in 0 .. 64 - p and is 0 or the rank of a
\* key that was added, and an overflow entry of the compact estimator is at
\* most (64 - p) >> 4, which is at most 4.
C19_RegisterBounds ==
    /\ kind = "dense" =>
           \A i \in DOMAIN buckets_ :
               /\ buckets_[i] \in 0 .. (BITSET_CAPACITY - n_bits_)
               /\ buckets_[i] \in
                      {0} \cup {HeadRank(CalculateHash(val), n_bits_) : val \in Started}
    /\ kind = "presto" =>
           /\ \A i \in DOMAIN dense_bucket_ :
                  LET combined == GetBucketValue(dense_bucket_, overflow_bucket_, i)
                  IN  /\ combined \in 0 .. (BITSET_CAPACITY - n_leading_bits_)
                      /\ combined \in
                             {0} \cup {TailRank(CalculateHash(val), n_leading_bits_) :
                                         val \in done}
           /\ \A i \in DOMAIN overflow_bucket_ :
                  /\ overflow_bucket_[i] <=
                         (BITSET_CAPACITY - n_leading_bits_) \div (2 ^ DENSE_BUCKET_SIZE)
                  /\ overflow_bucket_[i] <= 4

\* Key 1, whose hash is all zero, has been added at precision 0: the register
\* holds 64 = 64 - p, as dense field 0 and overflow entry 4.
C19_Witness ==
    /\ kind = "presto"
    /\ n_leading_bits_ = 0
    /\ 1 \in done
    /\ GetBucketValue(dense_bucket_, overflow_bucket_, 0) = BITSET_CAPACITY
    /\ overflow_bucket_[0] = 4

====
